---------------------------- MODULE Spec2Model ----------------------------
(***************************************************************************)
(* hlds_exporter: the polling engine.                                      *)
(*                                                                         *)
(*   - the wire codec of src/hlds.rs (parse_reply, parse_packet,           *)
(*     parse_info, parse_challenge, ServerInfo::try_from, read_cstring),   *)
(*     as operators over sequences of bytes;                               *)
(*   - the session loop GameServer::process (a select! over the timer,     *)
(*     the challenge channel and the packet channel);                      *)
(*   - main: the construction of one session per configured address and    *)
(*     the reader task that routes datagrams by source address.            *)
(*                                                                         *)
(* Time is counted in seconds.  A byte is a number in 0..255, a      *)
(* String is the sequence of its Unicode scalar values.                    *)
(***************************************************************************)
EXTENDS Integers, Sequences, FiniteSets, TLC

(***************************************************************************)
(* Bounds of the model.                                                    *)
(***************************************************************************)
\* the clock is read at the start of each timer period and at one instant
\* inside it, InsideSecs seconds later: 0, 3, 5, 8, ... seconds
InsideSecs == 3
\* the number of times the clock moves on to its next instant
MaxInstants == 2
\* datagrams the network hands to the reader in one run
MaxDatagrams == 2
\* longest configured address list
MaxConfig == 2
\* longest payload after the tag of a generated Challenge reply
MaxChallengePayload == 5

(***************************************************************************)
(* Constants of src/hlds.rs.                                               *)
(***************************************************************************)
MAX_REPLY_SIZE == 1400

\* b"\xFF\xFF\xFF\xFF\x54Source Engine Query\0"
A2S_INFO ==
    <<255, 255, 255, 255, 84,
      83, 111, 117, 114, 99, 101, 32,
      69, 110, 103, 105, 110, 101, 32,
      81, 117, 101, 114, 121, 0>>

S2A_INFO == 73

S2C_CHALLENGE == 65

SPLIT_PACKET == <<254, 255, 255, 255>>

HEADER == <<255, 255, 255, 255>>

CHALLENGE_LENGHT == 4

\* Duration::from_secs(5): the period of the timer and the freshness window
IntervalSecs == 5

(***************************************************************************)
(* Results and options.                                                    *)
(***************************************************************************)
Ok(v) == [ok |-> TRUE, val |-> v]

Err == [ok |-> FALSE, val |-> <<>>]

None == [some |-> FALSE, at |-> 0]

Some(t) == [some |-> TRUE, at |-> t]

\* slice::starts_with
starts_with(s, prefix) ==
    /\ Len(s) >= Len(prefix)
    /\ SubSeq(s, 1, Len(prefix)) = prefix

(***************************************************************************)
(* The four validating conversions of an enumeration byte.                 *)
(***************************************************************************)
ServerType_try_from_listen_i(value) ==
    CASE value = 100 -> Ok("Dedicated")
      [] value = 105 -> Ok("Listen")
      [] value = 112 -> Ok("Proxy")
      [] OTHER -> Err

\* b'd', b'l', b'p'
ServerType_try_from(value) ==
    CASE value = 100 -> Ok("Dedicated")
      [] value = 108 -> Ok("Listen")
      [] value = 112 -> Ok("Proxy")
      [] OTHER -> Err

\* b'l', b'w', b'm'
EnvironmentType_try_from(value) ==
    CASE value = 108 -> Ok("Linux")
      [] value = 119 -> Ok("Windows")
      [] value = 109 -> Ok("Mac")
      [] OTHER -> Err

Visibility_try_from(value) ==
    CASE value = 0 -> Ok("Public")
      [] value = 1 -> Ok("Private")
      [] OTHER -> Err

Vac_try_from(value) ==
    CASE value = 0 -> Ok("Unsecured")
      [] value = 1 -> Ok("Secured")
      [] OTHER -> Err

(***************************************************************************)
(* String::from_utf8_lossy: well-formed UTF-8 sequences become their       *)
(* scalar value, every maximal ill-formed part becomes U+FFFD.             *)
(***************************************************************************)
REPLACEMENT_CHARACTER == 65533

IsCont(b) == b >= 128 /\ b <= 191

\* the length of the sequence a lead byte opens (0: not a lead byte) and the
\* range its second byte must lie in
Utf8Lead(b) ==
    CASE b >= 194 /\ b <= 223 -> [n |-> 2, lo |-> 128, hi |-> 191]
      [] b = 224              -> [n |-> 3, lo |-> 160, hi |-> 191]
      [] b >= 225 /\ b <= 236 -> [n |-> 3, lo |-> 128, hi |-> 191]
      [] b = 237              -> [n |-> 3, lo |-> 128, hi |-> 159]
      [] b >= 238 /\ b <= 239 -> [n |-> 3, lo |-> 128, hi |-> 191]
      [] b = 240              -> [n |-> 4, lo |-> 144, hi |-> 191]
      [] b >= 241 /\ b <= 243 -> [n |-> 4, lo |-> 128, hi |-> 191]
      [] b = 244              -> [n |-> 4, lo |-> 128, hi |-> 143]
      [] OTHER                -> [n |-> 0, lo |-> 0, hi |-> 0]

Char(ch, used) == [ch |-> ch, used |-> used]

\* the next character of bytes, whose first byte opens the sequence l, and
\* how many bytes it takes
Utf8Step(bytes, l) ==
    IF bytes[1] < 128 THEN Char(bytes[1], 1)
    ELSE IF l.n = 0 THEN Char(REPLACEMENT_CHARACTER, 1)
    ELSE IF Len(bytes) < 2 \/ bytes[2] < l.lo \/ bytes[2] > l.hi
         THEN Char(REPLACEMENT_CHARACTER, 1)
    ELSE IF l.n = 2
         THEN Char((bytes[1] - 192) * 64 + (bytes[2] - 128), 2)
    ELSE IF Len(bytes) < 3 \/ ~IsCont(bytes[3])
         THEN Char(REPLACEMENT_CHARACTER, 2)
    ELSE IF l.n = 3
         THEN Char((bytes[1] - 224) * 4096 + (bytes[2] - 128) * 64
                   + (bytes[3] - 128), 3)
    ELSE IF Len(bytes) < 4 \/ ~IsCont(bytes[4])
         THEN Char(REPLACEMENT_CHARACTER, 3)
    ELSE Char((bytes[1] - 240) * 262144 + (bytes[2] - 128) * 4096
              + (bytes[3] - 128) * 64 + (bytes[4] - 128), 4)

Utf8Next(bytes) == Utf8Step(bytes, Utf8Lead(bytes[1]))

RECURSIVE from_utf8_lossy(_)
Utf8Rest(bytes, c) ==
    <<c.ch>> \o from_utf8_lossy(SubSeq(bytes, c.used + 1, Len(bytes)))

from_utf8_lossy(bytes) ==
    IF bytes = <<>> THEN <<>> ELSE Utf8Rest(bytes, Utf8Next(bytes))

(***************************************************************************)
(* Reads from a Cursor: buf is the whole packet, pos the cursor's          *)
(* position (bytes already consumed).  Each read gives the value and the   *)
(* new position, or fails when the buffer ends first.                      *)
(***************************************************************************)
Read(v, p) == [ok |-> TRUE, val |-> v, pos |-> p]

ReadErr == [ok |-> FALSE, val |-> 0, pos |-> 0]

read_u8(buf, pos) ==
    IF pos + 1 <= Len(buf) THEN Read(buf[pos + 1], pos + 1) ELSE ReadErr

read_i16_unsigned(buf, pos) ==
    IF pos + 2 <= Len(buf)
    THEN Read(buf[pos + 1] + 256 * buf[pos + 2], pos + 2)
    ELSE ReadErr

\* read_i16::<LittleEndian>: two's complement, the top byte carrying the sign
read_i16(buf, pos) ==
    IF pos + 2 <= Len(buf)
    THEN Read(buf[pos + 1]
              + 256 * (IF buf[pos + 2] >= 128 THEN buf[pos + 2] - 256
                       ELSE buf[pos + 2]),
              pos + 2)
    ELSE ReadErr

\* read_i32::<LittleEndian>: two's complement, the top byte carrying the sign
read_i32(buf, pos) ==
    IF pos + 4 <= Len(buf)
    THEN Read(buf[pos + 1] + 256 * buf[pos + 2] + 65536 * buf[pos + 3]
              + 16777216 * (IF buf[pos + 4] >= 128 THEN buf[pos + 4] - 256
                            ELSE buf[pos + 4]),
              pos + 4)
    ELSE ReadErr

\* one more byte in front of the bytes read after it
Push(b, rest) == [bytes |-> <<b>> \o rest.bytes, pos |-> rest.pos]

\* the bytes of read_cstring's loop from pos: up to the first 0 or the end
RECURSIVE cstring_bytes(_, _)
cstring_bytes(buf, pos) ==
    IF pos >= Len(buf) THEN [bytes |-> <<>>, pos |-> pos]
    ELSE IF buf[pos + 1] = 0 THEN [bytes |-> <<>>, pos |-> pos + 1]
    ELSE Push(buf[pos + 1], cstring_bytes(buf, pos + 1))

\* String::from_utf8_lossy(str_vec).to_string()
CString(r) == Read(from_utf8_lossy(r.bytes), r.pos)

read_cstring(buf, pos) == CString(cstring_bytes(buf, pos))

\* the conversion c of the byte read by r
Converted(r, c) == IF c.ok THEN Read(c.val, r.pos) ELSE ReadErr

\* the conversion into the type of the k-th field
try_into(value, k) ==
    CASE k = 12 -> ServerType_try_from(value)
      [] k = 13 -> EnvironmentType_try_from(value)
      [] k = 14 -> Visibility_try_from(value)
      [] k = 15 -> Vac_try_from(value)

TryInto(r, k) == IF r.ok THEN Converted(r, try_into(r.val, k)) ELSE ReadErr

\* value.read_u8()?.try_into()?
read_enum(buf, pos, k) == TryInto(read_u8(buf, pos), k)

(***************************************************************************)
(* TryFrom<Cursor<&[u8]>> for ServerInfo: the sixteen reads in order, the  *)
(* first failure failing the whole conversion.                             *)
(***************************************************************************)
InfoReads == 16

ReadField(buf, pos, k) ==
    CASE k = 1  -> read_i32(buf, pos)
      [] k = 2  -> read_u8(buf, pos)
      [] k = 3  -> read_u8(buf, pos)
      [] k = 4  -> read_cstring(buf, pos)
      [] k = 5  -> read_cstring(buf, pos)
      [] k = 6  -> read_cstring(buf, pos)
      [] k = 7  -> read_cstring(buf, pos)
      [] k = 8  -> read_i16(buf, pos)
      [] k = 9  -> read_u8(buf, pos)
      [] k = 10 -> read_u8(buf, pos)
      [] k = 11 -> read_u8(buf, pos)
      [] k = 12 -> read_enum(buf, pos, k)
      [] k = 13 -> read_enum(buf, pos, k)
      [] k = 14 -> read_enum(buf, pos, k)
      [] k = 15 -> read_enum(buf, pos, k)
      [] k = 16 -> read_cstring(buf, pos)

Cons(r, rest) == IF rest.ok THEN Ok(<<r.val>> \o rest.val) ELSE Err

\* the values of reads k..16 from pos, the first failure failing them all
RECURSIVE ReadFields(_, _, _)
ReadMore(buf, k, r) ==
    IF r.ok THEN Cons(r, ReadFields(buf, r.pos, k + 1)) ELSE Err

ReadFields(buf, pos, k) ==
    IF k > InfoReads THEN Ok(<<>>) ELSE ReadMore(buf, k, ReadField(buf, pos, k))

\* Ok(Self { header, protocol, ... }); the first value, _packet_header, is
\* dropped
ServerInfo_of(r) ==
    IF ~r.ok THEN Err
    ELSE Ok([header       |-> r.val[2],
             protocol     |-> r.val[3],
             name         |-> r.val[4],
             map          |-> r.val[5],
             folder       |-> r.val[6],
             game         |-> r.val[7],
             id           |-> r.val[8],
             players      |-> r.val[9],
             max_players  |-> r.val[10],
             bots         |-> r.val[11],
             server_type  |-> r.val[12],
             environment  |-> r.val[13],
             visibility   |-> r.val[14],
             vac          |-> r.val[15],
             version      |-> r.val[16]])

ServerInfo_try_from(value) == ServerInfo_of(ReadFields(value, 0, 1))

(***************************************************************************)
(* The metrics sink (src/metrics.rs): four gauge families.  players, bots  *)
(* and up are keyed by the address, info by (name, addr, game, version).   *)
(* A family is the function from the label sets created so far to the      *)
(* gauge's value.                                                          *)
(***************************************************************************)
Metrics_new == [players |-> <<>>, bots |-> <<>>, info |-> <<>>, up |-> <<>>]

\* Family::get_or_create(labels).set(v)
GaugeSet(family, labels, v) ==
    [l \in DOMAIN family \cup {labels} |-> IF l = labels THEN v ELSE family[l]]

observe_players(m, addr, players, bots) ==
    [m EXCEPT !.players = GaugeSet(m.players, addr, players),
              !.bots = GaugeSet(m.bots, addr, bots)]

observe_info(m, addr, name, game, version) ==
    [m EXCEPT !.info = GaugeSet(m.info, <<name, addr, game, version>>, 1)]

observe_up(m, addr, up) ==
    [m EXCEPT !.up = GaugeSet(m.up, addr, IF up THEN 1 ELSE 0)]

(***************************************************************************)
(* Decoding a reply.  Each operator gives what the method does to the      *)
(* world: the metrics sink after it, the calls made on the sink, the token *)
(* it hands to tx_challenge (send), the ServerInfo it traces (info), and   *)
(* the branch taken (frame).                                               *)
(***************************************************************************)
Effect(frame, m, calls, send, info) ==
    [frame |-> frame, metrics |-> m, calls |-> calls, send |-> send,
     info |-> info]

parse_challenge_from_header(packet) ==
    IF Len(HEADER) + CHALLENGE_LENGHT <= Len(packet)
    THEN Ok(SubSeq(packet, Len(HEADER) + 1, Len(HEADER) + CHALLENGE_LENGHT))
    ELSE Err

\* packet.get(index..index + CHALLENGE_LENGHT), index = HEADER.len() + 1
\* counted from 0
parse_challenge(packet) ==
    IF Len(HEADER) + 1 + CHALLENGE_LENGHT <= Len(packet)
    THEN Ok(SubSeq(packet, Len(HEADER) + 2,
                   Len(HEADER) + 1 + CHALLENGE_LENGHT))
    ELSE Err

\* if let Ok(info) = info { observe_players(...); observe_info(...) }
InfoEffect(m, addr, info) ==
    IF info.ok
    THEN Effect("Info",
                observe_info(
                    observe_players(m, addr, info.val.players, info.val.bots),
                    addr, info.val.name, info.val.game, info.val.version),
                << <<"observe_players", addr, info.val.players, info.val.bots>>,
                   <<"observe_info", addr, info.val.name, info.val.game,
                     info.val.version>> >>,
                Err, info)
    ELSE Effect("InfoError", m, <<>>, Err, Err)

parse_info(m, addr, packet) == InfoEffect(m, addr, ServerInfo_try_from(packet))

\* if let Ok(challenge) = parse_challenge(packet) { tx_challenge.send(..) }
ChallengeEffect(m, challenge) ==
    IF challenge.ok THEN Effect("Challenge", m, <<>>, challenge, Err)
    ELSE Effect("ChallengeError", m, <<>>, Err, Err)

parse_packet(m, addr, packet) ==
    IF ~starts_with(packet, HEADER) THEN Effect("NoHeader", m, <<>>, Err, Err)
    ELSE IF Len(packet) < Len(HEADER) + 1 THEN Effect("NoType", m, <<>>, Err, Err)
    ELSE IF packet[Len(HEADER) + 1] = S2A_INFO THEN parse_info(m, addr, packet)
    ELSE IF packet[Len(HEADER) + 1] = S2C_CHALLENGE
         THEN ChallengeEffect(m, parse_challenge(packet))
    ELSE Effect("OtherType", m, <<>>, Err, Err)

parse_reply_unchecked(m, addr, reply) == parse_packet(m, addr, reply)

parse_reply(m, addr, reply) ==
    IF starts_with(reply, SPLIT_PACKET)
    THEN Effect("SplitUnsupported", m, <<>>, Err, Err)
    ELSE parse_packet(m, addr, reply)

get_info_without_token(challenge) == A2S_INFO

\* the message get_info hands to send_to
get_info(challenge) ==
    IF challenge = <<>> THEN A2S_INFO ELSE A2S_INFO \o challenge


(***************************************************************************)
(* The state.                                                              *)
(***************************************************************************)
VARIABLES
    config,          \* config.server_addr: the addresses the loop has yet to take
    main_pc,         \* main: "configure" (the loop over config), then "running"
    servers,         \* the GameServers, in the order they were created
    addr_to_channel, \* address -> the session whose tx_packet it holds
    reader,          \* the reader task: receiving, or sending buf to a session
    now,             \* the clock, in seconds
    datagrams,       \* datagrams received from the socket so far
    metrics,         \* the metrics sink
    ev,              \* the step just taken and what it put out
    h_last_info,     \* per session: when an Info reply last decoded
    h_credit,        \* per session: ticks handled and Challenge replies
                     \* decoded, less the queries attempted
    h_ticks          \* per address: the last period in which ticks queried
                     \* it, and how many did

vars ==
    <<config, main_pc, servers, addr_to_channel, reader, now,
      datagrams, metrics, ev, h_last_info, h_credit, h_ticks>>

\* mpsc::channel::<Vec<u8>>(1)
ChannelCapacity == 1

FirstAddr == "10.0.0.1:27015"

ConfigAddrs == {FirstAddr, "10.0.0.2:27015"}

\* the addresses datagrams come from: each of them sends, whether this run
\* configures it or not
Sources == ConfigAddrs

Sessions == 1..Len(servers)

(***************************************************************************)
(* What a step puts out.                                                   *)
(*   op     the handler that ran          id, addr  the session            *)
(*   reply  the datagram handled          frame     the decoder's branch   *)
(*   calls  the calls made on the sink    token     the token decoded      *)
(*   query  the message given to send_to  sent      whether send_to was Ok *)
(*   up     the value given to observe_up info      the ServerInfo decoded *)
(***************************************************************************)
Event(op) ==
    [op |-> op, id |-> 0, addr |-> "", reply |-> <<>>, frame |-> "",
     calls |-> <<>>, token |-> <<>>, query |-> <<>>, sent |-> FALSE,
     up |-> FALSE, info |-> Err]

\* GameServer::new, with the timer time::interval(5 s) created at `at`:
\* its first tick is due at once
GameServer_new(server_addr, at) ==
    [server_addr  |-> server_addr,
     interval     |-> at,
     rx_challenge |-> <<>>,
     rx_packet    |-> <<>>,
     last_update  |-> None,
     challenge    |-> <<>>,
     pc           |-> "select",
     sending      |-> <<>>]

(***************************************************************************)
(* main: one session per configured address, duplicates skipped.           *)
(***************************************************************************)
contains_key_never(map, addr) == FALSE

\* addr_to_channel.contains_key(&addr)
contains_key(map, addr) == addr \in DOMAIN map

Insert_first(map, addr, id) == [a \in DOMAIN map \cup {addr} |-> 1]

Insert(map, addr, id) ==
    [a \in DOMAIN map \cup {addr} |-> IF a = addr THEN id ELSE map[a]]

AddServerStep(addr) ==
    IF contains_key(addr_to_channel, addr)
    THEN /\ UNCHANGED <<servers, addr_to_channel, h_last_info, h_credit>>
         /\ ev' = [Event("skip_duplicate") EXCEPT !.addr = addr]
    ELSE /\ servers' = Append(servers, GameServer_new(addr, now))
         /\ addr_to_channel' = Insert(addr_to_channel, addr, Len(servers) + 1)
         /\ h_last_info' = Append(h_last_info, None)
         /\ h_credit' = Append(h_credit, 0)
         /\ ev' = [Event("add_server") EXCEPT
                      !.addr = addr, !.id = Len(servers) + 1]

\* one turn of `for addr in config.server_addr`, which consumes the list
AddServer ==
    /\ main_pc = "configure"
    /\ config # <<>>
    /\ AddServerStep(Head(config))
    /\ config' = Tail(config)
    /\ UNCHANGED <<main_pc, reader, now, datagrams, metrics, h_ticks>>

\* the sessions and the reader are spawned once the loop is over
Spawn ==
    /\ main_pc = "configure"
    /\ config = <<>>
    /\ main_pc' = "running"
    /\ ev' = Event("spawn")
    /\ UNCHANGED <<config, servers, addr_to_channel, reader, now,
                   datagrams, metrics, h_last_info, h_credit, h_ticks>>

\* the credit c after so many more triggers (ticks handled, Challenge replies
\* decoded) and so many more queries attempted
Credit(c, triggers, queries) == c + triggers - queries

(***************************************************************************)
(* GameServer::process: one turn of the select! loop.                      *)
(***************************************************************************)
Selecting(i) ==
    /\ main_pc = "running"
    /\ i \in Sessions
    /\ servers[i].pc = "select"

NextDeadline_burst(deadline, at) == deadline + IntervalSecs

\* Interval::tick with MissedTickBehavior::Skip: a tick handled on time
\* schedules the next one a period later, a tick handled late schedules the
\* next multiple of the period after now
NextDeadline(deadline, at) ==
    IF at > deadline
    THEN at + IntervalSecs - ((at - deadline) % IntervalSecs)
    ELSE deadline + IntervalSecs

IsUp_inclusive(last_update, at) ==
    last_update.some /\ at - last_update.at <= IntervalSecs

\* last_update.map_or(false, |update| update.elapsed() < 5 s)
IsUp(last_update, at) ==
    last_update.some /\ at - last_update.at < IntervalSecs

TickStep_touching(i, gs, up, sent) ==
    /\ servers' = [servers EXCEPT
           ![i].interval = NextDeadline(gs.interval, now),
           ![i].last_update = Some(now)]
    /\ metrics' = observe_up(metrics, gs.server_addr, up)
    /\ ev' = [Event("tick") EXCEPT
                 !.id = i, !.addr = gs.server_addr,
                 !.query = get_info(gs.challenge), !.sent = sent, !.up = up,
                 !.calls = << <<"observe_up", gs.server_addr, up>> >>]
    /\ h_ticks' = [h_ticks EXCEPT
           ![gs.server_addr] =
               [period |-> now \div IntervalSecs,
                count  |-> IF @.period = now \div IntervalSecs
                           THEN @.count + 1 ELSE 1]]

TickStep_silent_on_error(i, gs, up, sent) ==
    /\ servers' = [servers EXCEPT
           ![i].interval = NextDeadline(gs.interval, now)]
    /\ metrics' = IF sent THEN observe_up(metrics, gs.server_addr, up)
                  ELSE metrics
    /\ ev' = [Event("tick") EXCEPT
                 !.id = i, !.addr = gs.server_addr,
                 !.query = get_info(gs.challenge), !.sent = sent, !.up = up,
                 !.calls = IF sent
                           THEN << <<"observe_up", gs.server_addr, up>> >>
                           ELSE <<>>]
    /\ h_ticks' = [h_ticks EXCEPT
           ![gs.server_addr] =
               [period |-> now \div IntervalSecs,
                count  |-> IF @.period = now \div IntervalSecs
                           THEN @.count + 1 ELSE 1]]

\* the timer branch: get_info (whose failure is only logged), then observe_up
TickStep(i, gs, up, sent) ==
    /\ servers' = [servers EXCEPT
           ![i].interval = NextDeadline(gs.interval, now)]
    /\ metrics' = observe_up(metrics, gs.server_addr, up)
    /\ ev' = [Event("tick") EXCEPT
                 !.id = i, !.addr = gs.server_addr,
                 !.query = get_info(gs.challenge), !.sent = sent, !.up = up,
                 !.calls = << <<"observe_up", gs.server_addr, up>> >>]
    /\ h_ticks' = [h_ticks EXCEPT
           ![gs.server_addr] =
               [period |-> now \div IntervalSecs,
                count  |-> IF @.period = now \div IntervalSecs
                           THEN @.count + 1 ELSE 1]]

Tick(i) ==
    /\ Selecting(i)
    /\ now >= servers[i].interval
    /\ \E sent \in BOOLEAN :
         TickStep(i, servers[i], IsUp(servers[i].last_update, now), sent)
    /\ UNCHANGED <<config, main_pc, addr_to_channel, reader, now,
                   datagrams, h_last_info>>
    /\ h_credit' = [h_credit EXCEPT ![i] = Credit(@, 1, 1)]

ChallengeStep_keep_first(i, gs, challenge, sent) ==
    /\ servers' = [servers EXCEPT
           ![i].rx_challenge = Tail(gs.rx_challenge),
           ![i].challenge = IF gs.challenge = <<>> THEN challenge
                            ELSE gs.challenge]
    /\ ev' = [Event("challenge") EXCEPT
                 !.id = i, !.addr = gs.server_addr, !.token = challenge,
                 !.query = get_info(challenge), !.sent = sent]

\* the challenge branch: self.challenge = challenge, then get_info
ChallengeStep(i, gs, challenge, sent) ==
    /\ servers' = [servers EXCEPT
           ![i].rx_challenge = Tail(gs.rx_challenge),
           ![i].challenge = challenge]
    /\ ev' = [Event("challenge") EXCEPT
                 !.id = i, !.addr = gs.server_addr, !.token = challenge,
                 !.query = get_info(challenge), !.sent = sent]

Challenge(i) ==
    /\ Selecting(i)
    /\ servers[i].rx_challenge # <<>>
    /\ \E sent \in BOOLEAN :
         ChallengeStep(i, servers[i], Head(servers[i].rx_challenge), sent)
    /\ UNCHANGED <<config, main_pc, addr_to_channel, reader, now,
                   datagrams, metrics, h_last_info, h_ticks>>
    /\ h_credit' = [h_credit EXCEPT ![i] = Credit(@, 0, 1)]

Waits_never(gs, eff) == FALSE

\* tx_challenge.send(challenge).await finds the channel full
Waits(gs, eff) == eff.send.ok /\ Len(gs.rx_challenge) >= ChannelCapacity

\* The packet branch: parse_reply, then last_update = now.  A decoded token
\* is sent on tx_challenge inside parse_packet; when that channel is full
\* the session waits there, with the rest of the branch still to run, and
\* the channel's only receiver is this same, waiting, session.
PacketStep_requery(i, gs, packet, eff, waits) ==
    /\ servers' = [servers EXCEPT
           ![i].rx_packet = Tail(gs.rx_packet),
           ![i].rx_challenge =
               IF eff.send.ok /\ ~waits THEN Append(gs.rx_challenge, eff.send.val)
               ELSE gs.rx_challenge,
           ![i].pc = IF waits THEN "send" ELSE "select",
           ![i].sending = IF waits THEN eff.send.val ELSE <<>>,
           ![i].last_update = IF waits THEN gs.last_update ELSE Some(now)]
    /\ metrics' = eff.metrics
    /\ h_credit' = [h_credit EXCEPT
           ![i] = Credit(@, IF eff.frame = "Challenge" THEN 1 ELSE 0, 1)]
    /\ h_last_info' = [h_last_info EXCEPT
           ![i] = IF eff.frame = "Info" THEN Some(now) ELSE @]
    /\ ev' = [Event("packet") EXCEPT
                 !.id = i, !.addr = gs.server_addr, !.reply = packet,
                 !.frame = eff.frame, !.calls = eff.calls,
                 !.token = eff.send.val, !.info = eff.info,
                 !.query = get_info(gs.challenge), !.sent = TRUE]

PacketStep(i, gs, packet, eff, waits) ==
    /\ servers' = [servers EXCEPT
           ![i].rx_packet = Tail(gs.rx_packet),
           ![i].rx_challenge =
               IF eff.send.ok /\ ~waits THEN Append(gs.rx_challenge, eff.send.val)
               ELSE gs.rx_challenge,
           ![i].pc = IF waits THEN "send" ELSE "select",
           ![i].sending = IF waits THEN eff.send.val ELSE <<>>,
           ![i].last_update = IF waits THEN gs.last_update ELSE Some(now)]
    /\ metrics' = eff.metrics
    /\ h_credit' = [h_credit EXCEPT
           ![i] = Credit(@, IF eff.frame = "Challenge" THEN 1 ELSE 0, 0)]
    /\ h_last_info' = [h_last_info EXCEPT
           ![i] = IF eff.frame = "Info" THEN Some(now) ELSE @]
    /\ ev' = [Event("packet") EXCEPT
                 !.id = i, !.addr = gs.server_addr, !.reply = packet,
                 !.frame = eff.frame, !.calls = eff.calls,
                 !.token = eff.send.val, !.info = eff.info]

PacketEffect(i, gs, packet, eff) ==
    PacketStep(i, gs, packet, eff, Waits(gs, eff))

Packet(i) ==
    /\ Selecting(i)
    /\ servers[i].rx_packet # <<>>
    /\ PacketEffect(i, servers[i], Head(servers[i].rx_packet),
                    parse_reply(metrics, servers[i].server_addr,
                                Head(servers[i].rx_packet)))
    /\ UNCHANGED <<config, main_pc, addr_to_channel, reader, now,
                   datagrams, h_ticks>>

(***************************************************************************)
(* The reader task of main: recv_from, look the source up, send the bytes  *)
(* to the session's packet channel (waiting while the channel is full).    *)
(***************************************************************************)
Receiving == [pc |-> "recv", to |-> 0, buf |-> <<>>]

\* buf.get(..amt): recv_from fills at most MAX_REPLY_SIZE bytes
Received(payload) ==
    SubSeq(payload, 1, IF Len(payload) < MAX_REPLY_SIZE THEN Len(payload)
                       ELSE MAX_REPLY_SIZE)

lookup_first(map, src) ==
    IF DOMAIN map = {} THEN 0 ELSE map[CHOOSE a \in DOMAIN map : TRUE]

\* addr_to_channel.get(&src): the session, or 0 for None
lookup(map, src) ==
    IF src \in DOMAIN map THEN map[src] ELSE 0

Route_dropping(src, to, buf) ==
    IF to = 0 \/ Len(servers[to].rx_packet) >= ChannelCapacity
    THEN /\ UNCHANGED <<servers, reader>>
         /\ ev' = [Event("drop") EXCEPT !.addr = src]
    ELSE /\ servers' = [servers EXCEPT ![to].rx_packet = Append(@, buf)]
         /\ UNCHANGED reader
         /\ ev' = [Event("forward") EXCEPT
                      !.addr = src, !.id = to, !.reply = buf]

Route(src, to, buf) ==
    IF to = 0
    THEN /\ UNCHANGED <<servers, reader>>
         /\ ev' = [Event("drop") EXCEPT !.addr = src]
    ELSE IF Len(servers[to].rx_packet) < ChannelCapacity
    THEN /\ servers' = [servers EXCEPT ![to].rx_packet = Append(@, buf)]
         /\ UNCHANGED reader
         /\ ev' = [Event("forward") EXCEPT
                      !.addr = src, !.id = to, !.reply = buf]
    ELSE /\ reader' = [pc |-> "send", to |-> to, buf |-> buf]
         /\ UNCHANGED servers
         /\ ev' = [Event("forward_wait") EXCEPT
                      !.addr = src, !.id = to, !.reply = buf]

ReaderRecv(src, payload) ==
    /\ main_pc = "running"
    /\ reader.pc = "recv"
    /\ datagrams < MaxDatagrams
    /\ datagrams' = datagrams + 1
    /\ Route(src, lookup(addr_to_channel, src), Received(payload))
    /\ UNCHANGED <<config, main_pc, addr_to_channel, now, metrics,
                   h_last_info, h_credit, h_ticks>>

\* recv_from failed: logged, and the loop goes on
ReaderRecvError ==
    /\ main_pc = "running"
    /\ reader.pc = "recv"
    /\ UNCHANGED vars

\* the waiting send completes once the session has taken its queued packet
ReaderSend ==
    /\ main_pc = "running"
    /\ reader.pc = "send"
    /\ Len(servers[reader.to].rx_packet) < ChannelCapacity
    /\ servers' = [servers EXCEPT ![reader.to].rx_packet = Append(@, reader.buf)]
    /\ reader' = Receiving
    /\ ev' = [Event("forward") EXCEPT
                 !.addr = servers[reader.to].server_addr, !.id = reader.to,
                 !.reply = reader.buf]
    /\ UNCHANGED <<config, main_pc, addr_to_channel, now, datagrams,
                   metrics, h_last_info, h_credit, h_ticks>>

\* how many times the clock has moved when it reads t
InstantIndex(t) ==
    2 * (t \div IntervalSecs) + (IF t % IntervalSecs = 0 THEN 0 ELSE 1)

NextInstant(t) ==
    IF t % IntervalSecs = 0 THEN t + InsideSecs
    ELSE (t \div IntervalSecs + 1) * IntervalSecs

\* time passes
Advance ==
    /\ main_pc = "running"
    /\ InstantIndex(now) < MaxInstants
    /\ now' = NextInstant(now)
    /\ ev' = Event("advance")
    /\ UNCHANGED <<config, main_pc, servers, addr_to_channel, reader,
                   datagrams, metrics, h_last_info, h_credit, h_ticks>>

(***************************************************************************)
(* The datagrams of the environment.                                       *)
(***************************************************************************)
SeqsUpTo(S, n) == UNION {[1..k -> S] : k \in 0..n}

\* the UTF-8 bytes of a text
RECURSIVE utf8_encode(_)
utf8_encode(text) ==
    IF text = <<>> THEN <<>>
    ELSE LET c == Head(text)
             bytes ==
                 IF c < 128 THEN <<c>>
                 ELSE IF c < 2048
                      THEN <<192 + (c \div 64), 128 + (c % 64)>>
                 ELSE IF c < 65536
                      THEN <<224 + (c \div 4096), 128 + ((c \div 64) % 64),
                             128 + (c % 64)>>
                 ELSE <<240 + (c \div 262144), 128 + ((c \div 4096) % 64),
                        128 + ((c \div 64) % 64), 128 + (c % 64)>>
         IN  bytes \o utf8_encode(Tail(text))

\* a 16-bit little-endian two's complement number
i16_bytes(v) ==
    LET u == IF v < 0 THEN v + 65536 ELSE v
    IN  <<u % 256, u \div 256>>

\* bytes followed by the terminator
cstring(bytes) == bytes \o <<0>>

\* An Info reply as a server sends it: header, tag, protocol, four strings,
\* id, three counters, four enumeration bytes, version.  r holds the raw
\* bytes of each field.
RawInfo(r) ==
    HEADER \o <<S2A_INFO, r.protocol>>
    \o cstring(r.name) \o cstring(r.map) \o cstring(r.folder) \o cstring(r.game)
    \o i16_bytes(r.id) \o <<r.players, r.max_players, r.bots>>
    \o <<r.server_type, r.environment, r.visibility, r.vac>>
    \o cstring(r.version)

ServerTypeByte(v) ==
    CASE v = "Dedicated" -> 100 [] v = "Listen" -> 108 [] v = "Proxy" -> 112

EnvironmentByte(v) ==
    CASE v = "Linux" -> 108 [] v = "Windows" -> 119 [] v = "Mac" -> 109

VisibilityByte(v) == CASE v = "Public" -> 0 [] v = "Private" -> 1

VacByte(v) == CASE v = "Unsecured" -> 0 [] v = "Secured" -> 1

\* the raw fields that encode the values of info
RawOf(info) ==
    [protocol    |-> info.protocol,
     name        |-> utf8_encode(info.name),
     map         |-> utf8_encode(info.map),
     folder      |-> utf8_encode(info.folder),
     game        |-> utf8_encode(info.game),
     id          |-> info.id,
     players     |-> info.players,
     max_players |-> info.max_players,
     bots        |-> info.bots,
     server_type |-> ServerTypeByte(info.server_type),
     environment |-> EnvironmentByte(info.environment),
     visibility  |-> VisibilityByte(info.visibility),
     vac         |-> VacByte(info.vac),
     version     |-> utf8_encode(info.version)]

InfoDatagram(info) == RawInfo(RawOf(info))

ChallengeDatagram(payload) == HEADER \o <<S2C_CHALLENGE>> \o payload

\* "Srv", "de", "cs", "CS", "1.1"
SampleInfo ==
    [header |-> S2A_INFO, protocol |-> 48,
     name |-> <<83, 114, 118>>, map |-> <<100, 101>>,
     folder |-> <<99, 115>>, game |-> <<67, 83>>,
     id |-> 10, players |-> 5, max_players |-> 32, bots |-> 1,
     server_type |-> "Dedicated", environment |-> "Linux",
     visibility |-> "Public", vac |-> "Secured",
     version |-> <<49, 46, 49>>]

Token1 == <<17, 34, 51, 68>>

Token2 == <<85, 102, 119, 136>>

GoodInfo == InfoDatagram(SampleInfo)

Token3 == <<153, 170, 187, 204>>

\* the tokens a server issues, two by the first server and one by any other:
\* no two servers issue the same one, so that a token tells which server it
\* came from
TokensOf(addr) ==
    IF addr = FirstAddr THEN {Token1, Token2} ELSE {Token3}

\* the datagrams the server at src sends
RepliesFrom(src) ==
    {GoodInfo} \cup {ChallengeDatagram(token) : token \in TokensOf(src)}

\* the datagrams the network delivers in the runs of the whole engine
Replies == UNION {RepliesFrom(src) : src \in Sources}

(***************************************************************************)
(* The engine.                                                             *)
(***************************************************************************)
\* The configured lists (at least one address, num_args = 1..), up to a
\* renaming of the addresses: the first address of a list is FirstAddr.
ConfigLists ==
    {c \in UNION {[1..n -> ConfigAddrs] : n \in 1..MaxConfig} : c[1] = FirstAddr}

Init ==
    /\ config \in ConfigLists
    /\ main_pc = "configure"
    /\ servers = <<>>
    /\ addr_to_channel = <<>>
    /\ reader = Receiving
    /\ now = 0
    /\ datagrams = 0
    /\ metrics = Metrics_new
    /\ ev = Event("start")
    /\ h_last_info = <<>>
    /\ h_credit = <<>>
    /\ h_ticks = [a \in ConfigAddrs |-> [period |-> 0, count |-> 0]]

Next ==
    \/ AddServer
    \/ Spawn
    \/ \E i \in Sessions : Tick(i)
    \/ \E i \in Sessions : Challenge(i)
    \/ \E i \in Sessions : Packet(i)
    \/ \E src \in Sources : \E payload \in RepliesFrom(src) :
           ReaderRecv(src, payload)
    \/ ReaderRecvError
    \/ ReaderSend
    \/ Advance

Spec == Init /\ [][Next]_vars


(***************************************************************************)
(* One session handling one queued datagram, drawn from a wide set: the    *)
(* state after the reader has forwarded the datagram, the session's token  *)
(* empty or set, its last_update absent or three seconds old.              *)
(***************************************************************************)
\* the values of a decoded Info reply
Texts == {<<83, 114, 118>>, <<233>>, <<>>}

WellFormedInfos ==
    {[SampleInfo EXCEPT !.name = n, !.id = id, !.players = p,
                        !.server_type = st, !.environment = env,
                        !.visibility = vis, !.vac = vac] :
        n \in Texts, id \in {10, -1}, p \in {5, 255},
        st \in {"Dedicated", "Listen", "Proxy"},
        env \in {"Linux", "Windows", "Mac"},
        vis \in {"Public", "Private"}, vac \in {"Unsecured", "Secured"}}

\* each with the datagram that encodes it
WellFormed == {[info |-> i, bytes |-> InfoDatagram(i)] : i \in WellFormedInfos}

\* Info replies over valid and invalid enumeration bytes ('i', 0, 'x', 2)
EnumRaws ==
    {[RawOf(SampleInfo) EXCEPT !.server_type = st, !.environment = env,
                               !.visibility = vis, !.vac = vac] :
        st \in {100, 108, 112, 105, 0}, env \in {108, 119, 109, 120},
        vis \in {0, 1, 2}, vac \in {0, 1, 2}}

EnumReplies == {[raw |-> r, bytes |-> RawInfo(r)] : r \in EnumRaws}

\* Info replies with a 4-byte field and a copy of the tag between the tag
\* and the protocol byte
LegacyInfo(r, legacy) ==
    HEADER \o <<S2A_INFO>> \o legacy \o <<S2A_INFO>>
    \o SubSeq(RawInfo(r), Len(HEADER) + 2, Len(RawInfo(r)))

LegacyReplies ==
    {[info |-> i, bytes |-> LegacyInfo(RawOf(i), legacy)] :
        i \in {SampleInfo, [SampleInfo EXCEPT !.name = <<>>]},
        legacy \in {<<0, 0, 0, 0>>, <<255, 255, 255, 255>>, <<1, 2, 3, 4>>}}

\* an Info reply cut short anywhere
Truncated == {SubSeq(GoodInfo, 1, n) : n \in 0..Len(GoodInfo) - 1}

\* a name that is not UTF-8
LossyInfo == RawInfo([RawOf(SampleInfo) EXCEPT !.name = <<255, 83>>])

Challenges ==
    {ChallengeDatagram(p) : p \in SeqsUpTo({17, 255}, MaxChallengePayload)}

\* the split marker before nothing, before whole replies and before their
\* bodies
Splits ==
    {SPLIT_PACKET \o rest :
        rest \in {<<>>, GoodInfo, ChallengeDatagram(Token1),
                  SubSeq(GoodInfo, 5, Len(GoodInfo)),
                  <<S2C_CHALLENGE>> \o Token1, <<S2A_INFO>>}}

Junk ==
    {<<>>, <<255>>, <<255, 255, 255>>, HEADER, HEADER \o <<68>>,
     HEADER \o <<84>> \o Token1, <<S2A_INFO>>, <<0, 255, 255, 255, S2A_INFO>>,
     <<255, 255, 255, 254, S2C_CHALLENGE>> \o Token1}

PacketReplies ==
    {w.bytes : w \in WellFormed} \cup {e.bytes : e \in EnumReplies}
    \cup {l.bytes : l \in LegacyReplies} \cup Truncated \cup {LossyInfo}
    \cup Challenges \cup Splits \cup Junk

PacketInit ==
    /\ config = <<>>
    /\ main_pc = "running"
    /\ \E reply \in PacketReplies, token \in {<<>>, Token2},
          at \in {[now |-> 0, last |-> None],
                  [now |-> InsideSecs, last |-> Some(0)]} :
         /\ servers = <<[GameServer_new(FirstAddr, 0) EXCEPT
                            !.rx_packet = <<reply>>, !.challenge = token,
                            !.last_update = at.last]>>
         /\ now = at.now
         /\ ev = [Event("forward") EXCEPT
                     !.addr = FirstAddr, !.id = 1, !.reply = reply]
    /\ addr_to_channel = Insert(<<>>, FirstAddr, 1)
    /\ reader = Receiving
    /\ datagrams = 1
    /\ metrics = Metrics_new
    /\ h_last_info = <<None>>
    /\ h_credit = <<0>>
    /\ h_ticks = [a \in ConfigAddrs |-> [period |-> 0, count |-> 0]]

PacketNext == \E i \in Sessions : Packet(i)

PacketSpec == PacketInit /\ [][PacketNext]_vars


(***************************************************************************)
(* The claims.                                                             *)
(***************************************************************************)
SessionsAt(addr) == {i \in Sessions : servers[i].server_addr = addr}

\* C1: a tick reports up == true only if an Info reply was decoded by that
\* session less than one tick interval before; whatever else the session
\* received meanwhile, a session without such a decode reports up == false.
C1_UpOnlyAfterInfo ==
    (ev.op = "tick" /\ ev.up)
        => /\ h_last_info[ev.id].some
           /\ now - h_last_info[ev.id].at < IntervalSecs

\* C2: a session never becomes permanently blocked: none is ever suspended
\* in its packet branch on a send that only its own, suspended, select loop
\* could receive, so each keeps handling its ticks.
C2_NeverBlocked ==
    \A i \in Sessions : servers[i].pc = "select"

\* C3: once a session has decoded a Challenge reply carrying token T, the
\* next query it sends carries T: when the session's next turn sends a
\* query, the query is A2S_INFO followed by T.
C3_NextQueryCarriesToken ==
    [][(/\ ev.op = "packet" /\ ev.frame = "Challenge"
        /\ ev'.op \in {"tick", "challenge"} /\ ev'.id = ev.id /\ ev'.sent)
           => ev'.query = A2S_INFO \o ev.token]_vars

\* C4: exactly one session, with one packet channel and one timer, exists
\* per distinct configured address, a repeated address creating no second
\* one, and ticks query an address at most once in a tick interval.
C4_OneSessionPerAddress ==
    /\ \A i, j \in Sessions :
           servers[i].server_addr = servers[j].server_addr => i = j
    /\ ev.op \in {"add_server", "skip_duplicate"}
           => Cardinality(SessionsAt(ev.addr)) = 1
    /\ \A i \in Sessions :
           /\ servers[i].server_addr \in DOMAIN addr_to_channel
           /\ addr_to_channel[servers[i].server_addr] = i
    /\ DOMAIN addr_to_channel = {servers[i].server_addr : i \in Sessions}
    /\ \A a \in ConfigAddrs : h_ticks[a].count <= 1

\* a repeated address has just been skipped, its session being there already
C4_DuplicateSkipped ==
    /\ ev.op = "skip_duplicate"
    /\ SessionsAt(ev.addr) = {1}

\* C4 as stated: every tick interval has exactly one tick-triggered query to
\* the address, so the ticks that query it fall in consecutive intervals
\* starting with the first.
C4_ExactlyOneQueryPerInterval ==
    [][\A a \in ConfigAddrs :
           h_ticks'[a] # h_ticks[a]
               => /\ h_ticks'[a].count = 1
                  /\ h_ticks'[a].period =
                         IF h_ticks[a].count = 0 THEN 0
                         ELSE h_ticks[a].period + 1]_vars

\* C5: a datagram whose source has no session is dropped: no session's
\* channels, token or timestamp and no metric changes, and the reader goes
\* on to its next recv_from.
C5_UnmatchedSourceDropped ==
    [][(/\ datagrams' = datagrams + 1
        /\ SessionsAt(ev'.addr) = {})
           => /\ ev'.op = "drop"
              /\ servers' = servers
              /\ metrics' = metrics
              /\ h_last_info' = h_last_info
              /\ reader' = Receiving]_vars

\* a datagram from an address without a session has just been dropped while
\* a session is running
C5_Dropped ==
    /\ ev.op = "drop"
    /\ SessionsAt(ev.addr) = {}
    /\ Sessions # {}

\* the branches of parse_reply that yield nothing
Useless ==
    {"SplitUnsupported", "NoHeader", "NoType", "OtherType", "ChallengeError",
     "InfoError"}

\* C6: handling a datagram that yields no usable information leaves the
\* session's state unchanged: its token and its last-success timestamp keep
\* their values, no token is queued for a query and no metric is emitted.
C6_UselessDatagramChangesNothing ==
    [][(ev'.op = "packet" /\ ev'.frame \in Useless)
           => /\ servers'[ev'.id].challenge = servers[ev'.id].challenge
              /\ servers'[ev'.id].last_update = servers[ev'.id].last_update
              /\ servers'[ev'.id].rx_challenge = servers[ev'.id].rx_challenge
              /\ ev'.calls = <<>>
              /\ metrics' = metrics]_vars

BadEnums(raw) ==
    \/ raw.server_type \notin {100, 108, 112}
    \/ raw.environment \notin {108, 119, 109}
    \/ raw.visibility \notin {0, 1}
    \/ raw.vac \notin {0, 1}

\* C7: an Info reply with any of its four enumeration bytes outside its value
\* set fails to decode as a whole: no ServerInfo is produced and neither
\* observe_players nor observe_info is called for it.
C7_BadEnumFailsWhole ==
    \A e \in EnumReplies :
        (ev.op = "packet" /\ ev.reply = e.bytes /\ BadEnums(e.raw))
            => /\ ev.frame = "InfoError"
               /\ ev.info = Err
               /\ ev.calls = <<>>
               /\ metrics = Metrics_new

\* an Info reply whose only bad byte is the server type 'i' has been handled
C7_ListenByteRejected ==
    /\ ev.op = "packet"
    /\ ev.reply = RawInfo([RawOf(SampleInfo) EXCEPT !.server_type = 105])
    /\ ev.frame = "InfoError"

\* C8: every datagram that begins with FE FF FF FF is classified as
\* unsupported whatever follows: it yields no token, hence no re-issued
\* query, and no players or info observation.
C8_SplitAlwaysUnsupported ==
    (/\ ev.op = "packet" /\ Len(ev.reply) >= 4
     /\ SubSeq(ev.reply, 1, 4) = <<254, 255, 255, 255>>)
        => /\ ev.frame = "SplitUnsupported"
           /\ ev.token = <<>>
           /\ ev.info = Err
           /\ ev.calls = <<>>
           /\ servers[ev.id].rx_challenge = <<>>
           /\ servers[ev.id].pc = "select"
           /\ metrics = Metrics_new

\* the split marker followed by a whole Info reply has been handled
C8_SplitInfoHandled ==
    /\ ev.op = "packet"
    /\ ev.reply = <<254, 255, 255, 255>> \o GoodInfo
    /\ ev.frame = "SplitUnsupported"

\* C9: decoding header ++ 0x41 ++ payload fails, producing no token, when
\* the payload has fewer than 4 bytes; otherwise it succeeds and the token
\* is exactly the first 4 bytes of the payload.
C9_ChallengeToken ==
    (/\ ev.op = "packet" /\ Len(ev.reply) >= 5
     /\ SubSeq(ev.reply, 1, 5) = <<255, 255, 255, 255, 65>>)
        => IF Len(ev.reply) < 9
           THEN /\ ev.frame = "ChallengeError"
                /\ ev.token = <<>>
                /\ servers[ev.id].rx_challenge = <<>>
           ELSE /\ ev.frame = "Challenge"
                /\ ev.token = SubSeq(ev.reply, 6, 9)
                /\ servers[ev.id].rx_challenge = <<SubSeq(ev.reply, 6, 9)>>

\* a Challenge reply with a 5-byte payload has given its first 4 bytes
C9_LongChallengeDecoded ==
    /\ ev.op = "packet"
    /\ ev.reply = <<255, 255, 255, 255, 65, 17, 255, 255, 17, 255>>
    /\ ev.token = <<17, 255, 255, 17>>

\* C10: an Info reply laid out as header ++ 0x49 ++ protocol ++ name, map,
\* folder, game (null-terminated UTF-8) ++ 2-byte id ++ players ++ max
\* players ++ bots ++ four valid enumeration bytes ++ null-terminated
\* version decodes, every decoded field having the value encoded, the
\* decoded header being the tag; its players, bots, name, game and version
\* are what the sink is given.
C10_InfoDecodesExactly ==
    \A w \in WellFormed :
        (ev.op = "packet" /\ ev.reply = w.bytes)
            => /\ ev.frame = "Info"
               /\ ev.info = Ok(w.info)
               /\ ev.calls =
                      << <<"observe_players", FirstAddr, w.info.players,
                           w.info.bots>>,
                         <<"observe_info", FirstAddr, w.info.name,
                           w.info.game, w.info.version>> >>

\* an Info reply with a non-ASCII name and a negative id has been decoded
C10_InfoDecoded ==
    /\ ev.op = "packet"
    /\ ev.info.ok
    /\ ev.info.val.name = <<233>>
    /\ ev.info.val.id = -1

\* C10 as stated: with a 4-byte legacy field and a header-echo byte between
\* the tag and the protocol byte, the reply decodes to the values encoded.
C10_LegacyLayoutDecodes ==
    \A l \in LegacyReplies :
        (ev.op = "packet" /\ ev.reply = l.bytes) => ev.info = Ok(l.info)

\* the 25 bytes FF FF FF FF 'T' "Source Engine Query" 00
Preamble ==
    <<255, 255, 255, 255, 84, 83, 111, 117, 114, 99, 101, 32, 69, 110, 103,
      105, 110, 101, 32, 81, 117, 101, 114, 121, 0>>

\* C11: every query a session sends is the 25-byte preamble followed by the
\* token the session holds when it sends: 25 bytes with an empty token, the
\* preamble and the 4 token bytes otherwise.
C11_QueryIsPreambleAndToken ==
    ev.op \in {"tick", "challenge"}
        => /\ Len(Preamble) = 25
           /\ ev.query = Preamble \o servers[ev.id].challenge
           /\ Len(ev.query) = IF servers[ev.id].challenge = <<>> THEN 25 ELSE 29

\* a query with a token has been sent
C11_TokenQuerySent ==
    /\ ev.op \in {"tick", "challenge"}
    /\ ev.sent
    /\ servers[ev.id].challenge = Token1
    /\ Len(ev.query) = 29

OwnTokens(addr) == {<<>>} \cup TokensOf(addr)

\* C13: tokens are never combined across servers: the token a session
\* stores, queues or waits to queue, and the token of every query to its
\* address, is empty or was issued by the server at that address, and only
\* datagrams from that address reach the session.
C13_TokensStayWithTheirServer ==
    /\ \A i \in Sessions :
           /\ servers[i].challenge \in OwnTokens(servers[i].server_addr)
           /\ servers[i].sending \in OwnTokens(servers[i].server_addr)
           /\ \A k \in 1..Len(servers[i].rx_challenge) :
                  servers[i].rx_challenge[k] \in TokensOf(servers[i].server_addr)
           /\ \A k \in 1..Len(servers[i].rx_packet) :
                  servers[i].rx_packet[k] \in RepliesFrom(servers[i].server_addr)
    /\ reader.pc = "send"
           => reader.buf \in RepliesFrom(servers[reader.to].server_addr)
    /\ ev.op \in {"tick", "challenge"}
           => ev.query \in {Preamble \o token : token \in OwnTokens(ev.addr)}

\* two sessions hold a token each, each the token of its own server
C13_TwoTokens ==
    /\ Len(servers) = 2
    /\ servers[1].challenge \in TokensOf(servers[1].server_addr)
    /\ servers[2].challenge \in TokensOf(servers[2].server_addr)

\* C14: when the query of a tick fails to be sent, the session's token and
\* timestamp are unchanged, the observe_up of that tick is still made, the
\* session goes on selecting, and its next tick is due within one interval
\* as after a successful send.
C14_SendFailureChangesNothing ==
    [][(h_ticks' # h_ticks /\ ~ev'.sent)
           => /\ ev'.op = "tick"
              /\ Len(ev'.query) >= 25
              /\ servers'[ev'.id].challenge = servers[ev'.id].challenge
              /\ servers'[ev'.id].last_update = servers[ev'.id].last_update
              /\ servers'[ev'.id].pc = "select"
              /\ ev'.calls = << <<"observe_up", ev'.addr, ev'.up>> >>
              /\ metrics' = observe_up(metrics, ev'.addr, ev'.up)
              /\ servers'[ev'.id].interval > now
              /\ servers'[ev'.id].interval <= now + IntervalSecs]_vars

\* a tick of a session that holds a token and a timestamp failed to send
C14_SendFailed ==
    /\ ev.op = "tick"
    /\ ~ev.sent
    /\ servers[ev.id].challenge # <<>>
    /\ servers[ev.id].last_update.some

\* C15: at a tick, a timestamp exactly one tick interval old gives
\* up == false; up == true requires the timestamp to be there and strictly
\* less than the interval old, and an absent timestamp gives up == false.
C15_ExactIntervalIsStale ==
    ev.op = "tick"
        => /\ ~servers[ev.id].last_update.some => ~ev.up
           /\ (/\ servers[ev.id].last_update.some
               /\ now - servers[ev.id].last_update.at = 5) => ~ev.up
           /\ ev.up <=> (/\ servers[ev.id].last_update.some
                         /\ now - servers[ev.id].last_update.at < 5)

\* a tick found the timestamp exactly one interval old
C15_TickAtBoundary ==
    /\ ev.op = "tick"
    /\ servers[ev.id].last_update.some
    /\ now - servers[ev.id].last_update.at = 5
    /\ ~ev.up

\* whether the timestamp gs holds is less than one interval old
StoredUp(gs) == gs.last_update.some /\ now - gs.last_update.at < 5

\* session i, which was gs, has handled one tick
TickOf(i, gs) ==
    /\ ev'.op = "tick"
    /\ ev'.addr = gs.server_addr
    /\ ev'.query = Preamble \o gs.challenge
    /\ ev'.up = StoredUp(gs)
    /\ ev'.calls = << <<"observe_up", gs.server_addr, StoredUp(gs)>> >>
    /\ metrics' = observe_up(metrics, gs.server_addr, StoredUp(gs))
    /\ servers'[i].challenge = gs.challenge
    /\ servers'[i].last_update = gs.last_update
    /\ servers'[i].rx_packet = gs.rx_packet
    /\ servers'[i].rx_challenge = gs.rx_challenge
    /\ \A j \in Sessions \ {i} : servers'[j] = servers[j]

\* C16: handling one tick attempts exactly one query, with the token held
\* then, and makes exactly one observe_up for the session's address in the
\* same step, before any reply is taken from the packet channel; the value
\* is computed from the timestamp as it stood, and the tick changes neither
\* the token nor the timestamp.
C16_TickQueriesAndObservesOnce ==
    [][h_ticks' # h_ticks => TickOf(ev'.id, servers[ev'.id])]_vars

\* a tick has reported up == true with a reply waiting in the packet channel
C16_TickBeforeReply ==
    /\ ev.op = "tick"
    /\ ev.up
    /\ servers[ev.id].rx_packet # <<>>

\* C17: a session applies the effects of its datagrams in the order of their
\* arrival: when it decodes a datagram, the effect of every earlier one has
\* been applied, so no token decoded earlier is still waiting to be stored.
C17_EffectsInArrivalOrder ==
    [][(/\ ev'.op = "packet"
        /\ Len(servers'[ev'.id].rx_packet) < Len(servers[ev'.id].rx_packet))
           => servers[ev'.id].rx_challenge = <<>>]_vars

\* what was queued for session i, which was gs, is still there or has been
\* taken by the session's own select loop
QueuesKept(i, gs) ==
    /\ gs.rx_packet # <<>>
           => \/ servers'[i].rx_packet = gs.rx_packet
              \/ /\ servers'[i].rx_packet = Tail(gs.rx_packet)
                 /\ ev'.op = "packet" /\ ev'.id = i
                 /\ ev'.reply = Head(gs.rx_packet)
    /\ gs.rx_challenge # <<>>
           => \/ servers'[i].rx_challenge = gs.rx_challenge
              \/ /\ servers'[i].rx_challenge = Tail(gs.rx_challenge)
                 /\ ev'.op = "challenge" /\ ev'.id = i
                 /\ ev'.token = Head(gs.rx_challenge)

\* a producer that finds the queue of session i full keeps its item and waits
ProducerWaits(i, gs) ==
    /\ (/\ datagrams' = datagrams + 1
        /\ gs.server_addr = ev'.addr
        /\ Len(gs.rx_packet) >= 1)
           => reader' = [pc |-> "send", to |-> i, buf |-> ev'.reply]
    /\ (reader.pc = "send" /\ reader.to = i)
           => \/ reader' = reader
              \/ servers'[i].rx_packet = Append(gs.rx_packet, reader.buf)
    /\ (/\ ev'.op = "packet" /\ ev'.id = i /\ ev'.frame = "Challenge"
        /\ Len(servers'[i].rx_packet) < Len(gs.rx_packet)
        /\ Len(gs.rx_challenge) >= 1)
           => /\ servers'[i].pc = "send"
              /\ servers'[i].sending = ev'.token
    /\ gs.pc = "send"
           => /\ servers'[i].pc = "send"
              /\ servers'[i].sending = gs.sending

\* C18: the packet channel and the challenge channel of every session hold
\* at most one item at any time, and a producer that finds one full (the
\* reader for packets, the session for tokens) waits with its item: the
\* queued item is neither dropped nor overwritten.
C18_QueuesHoldOne ==
    /\ [](\A i \in Sessions :
              /\ Len(servers[i].rx_packet) <= 1
              /\ Len(servers[i].rx_challenge) <= 1)
    /\ [][\A i \in Sessions :
              /\ QueuesKept(i, servers[i])
              /\ ProducerWaits(i, servers[i])]_vars

\* a session waits with the second token for its challenge channel, which
\* still holds the first
C18_SessionWaits ==
    \E i \in Sessions :
        /\ servers[i].pc = "send"
        /\ servers[i].rx_challenge = <<Token1>>
        /\ servers[i].sending = Token2

\* C19: each session has its own timer, which skips missed ticks: a tick is
\* handled when due and leaves the next one due at the next regular time
\* after now, however many intervals the session let pass, so one tick at
\* most fires per interval; a session's timer is moved by its own ticks
\* only, and a session that is selecting handles its due tick whatever the
\* other sessions do.
C19_OwnTimerSkipsMissedTicks ==
    /\ [][/\ h_ticks' # h_ticks
                 => /\ servers[ev'.id].interval <= now
                    /\ servers'[ev'.id].interval = 5 * ((now \div 5) + 1)
          /\ \A i \in Sessions :
                 servers'[i].interval # servers[i].interval
                     => ev'.op = "tick" /\ ev'.id = i]_vars
    /\ [](\A i \in Sessions :
              (/\ main_pc = "running"
               /\ servers[i].pc = "select"
               /\ now >= servers[i].interval) => ENABLED Tick(i))

\* a session has handled a tick at 5 s, the only one of that interval, while
\* the other session is blocked
C19_LateTickBesideBlockedSession ==
    /\ ev.op = "tick"
    /\ now = 5
    /\ h_ticks[ev.addr] = [period |-> 1, count |-> 1]
    /\ \E j \in Sessions \ {ev.id} : servers[j].pc = "send"

\* the token of session i, which held `held`, is what it was unless the
\* session has taken a token from its challenge channel, which it then holds
TokenStep(i, held, queued) ==
    /\ servers'[i].challenge # held
           => /\ ev'.op = "challenge" /\ ev'.id = i
              /\ queued # <<>>
    /\ (queued # <<>> /\ servers'[i].rx_challenge # queued)
           => /\ servers'[i].challenge = Head(queued)
              /\ Len(servers'[i].challenge) = 4
    /\ held # <<>> => servers'[i].challenge # <<>>

\* C20: a session's token is empty or 4 bytes long; it is empty when the
\* session is created and until a token is taken from the challenge
\* channel, each token taken replaces it, and once it is not empty it never
\* becomes empty again.
C20_TokenEmptyOrFourBytes ==
    /\ [](\A i \in Sessions : Len(servers[i].challenge) \in {0, 4})
    /\ [][/\ \A i \in Sessions :
                 TokenStep(i, servers[i].challenge, servers[i].rx_challenge)
          /\ \A i \in (1..Len(servers')) \ Sessions :
                 servers'[i].challenge = <<>>]_vars

\* after two datagrams, none of them a decoded Info reply, a session has
\* taken its server's second token from the challenge channel and holds it
C20_SecondTokenApplied ==
    /\ ev.op = "challenge"
    /\ datagrams = 2
    /\ servers[ev.id].challenge = Token2
    /\ ev.query = Preamble \o Token2
    /\ servers[ev.id].rx_packet = <<>>
    /\ reader.pc = "recv"
    /\ ~h_last_info[ev.id].some

\* C21: no query amplification: a session has attempted at most as many
\* queries as it has handled ticks and decoded Challenge replies, the
\* difference being the tokens it has not yet taken from its challenge
\* channel; queries are made by the tick and challenge branches only, and
\* handling a datagram, an Info reply included, makes none.
C21_NoQueryAmplification ==
    /\ \A i \in Sessions :
           /\ h_credit[i] >= 0
           /\ h_credit[i] = Len(servers[i].rx_challenge)
                            + (IF servers[i].pc = "send" THEN 1 ELSE 0)
    /\ ev.op = "packet" => (ev.query = <<>> /\ ~ev.sent)
    /\ ev.query # <<>> => ev.op \in {"tick", "challenge"}

\* a session that has spent the credit of a Challenge reply on a query has
\* decoded an Info reply
C21_InfoAfterChallengeQuery ==
    /\ ev.op = "packet"
    /\ ev.frame = "Info"
    /\ servers[ev.id].challenge # <<>>
    /\ h_credit[ev.id] = 0

=============================================================================
